---- MODULE Spec2Model ----
(***************************************************************************)
(* FaceFly: the per-frame game update of the restart-button app            *)
(* (src/unnamed/part_000) over the systems of src/game/physics.ts.         *)
(*                                                                         *)
(* Number representation (the source computes in IEEE doubles):            *)
(*   clock times and deltas   microseconds      (16.667 ms = 16667)        *)
(*   obstacle x               1/16667 pixel     (so PIPE_SPEED*delta/16.667*)
(*                                               px is PIPE_SPEED*delta    *)
(*                                               units, exactly)           *)
(*   avatar y, vy, heights    1/1000 pixel                                 *)
(*   angles                   1/1000 radian                                *)
(*                                                                         *)
(* React state is kept twice: the store (the value the last setX call      *)
(* left) and `rendered`, the values captured by the closures of the last   *)
(* render (handleFlap, onEvent, SpawnPipes, ScoreSystem read those).       *)
(* The game engine (react-native-game-engine) runs its systems from        *)
(* the frame timer while its `running` prop is true, and delivers a        *)
(* dispatched event to onEvent from a zero-delay timeout.                  *)
(***************************************************************************)
EXTENDS Integers, Sequences, FiniteSets, TLC

\* ---- game/constants (src/unnamed/part_003) ----
BIRD_SIZE == 40
PIPE_WIDTH == 60
PIPE_GAP == 160
PIPE_SPEED == 2
SPAWN_INTERVAL == 2000
MIN_PIPE_HEIGHT == 100
\* Dimensions.get('window'): the device's screen, in px
SCREEN_WIDTH == 360
SCREEN_HEIGHT == 640
\* 16.667 ms, the frame budget of Physics and the divisor of SpawnPipes
FRAME == 16667
\* engine.world.gravity.y = 0.6, in tenths
GRAVITY_Y == 6
\* velocity clamp of setupBirdVelocityClamping and the flap of moveBird (px)
VY_MAX == 15
VY_MIN == -12
FLAP_VY == -8
\* -Math.PI/4, Math.PI/2, -Math.PI/8 in milliradians
ANGLE_MIN == -785
ANGLE_MAX == 1570
FLAP_ANGLE == -392

READY == "READY"
PLAYING == "PLAYING"
GAME_OVER == "GAME_OVER"
GAME_STATES == {READY, PLAYING, GAME_OVER}

\* ---- bounds of the model ----
\* frame ticks delivered
MaxTicks == 5
\* taps per session (between two resets)
MaxTaps == 2
\* frame ticks that may run while a setState of a tick or timeout is not yet
\* rendered (the closures are stale)
MaxLag == 1

\* time.current - previous time of a tick, in microseconds: one frame, and a
\* stall of 90 frames (1.5 s)
Deltas == {FRAME, 90 * FRAME}
\* what an earlier run of the app may have left in AsyncStorage (saveHighScore
\* only ever writes a score above a high score >= 0)
SavedScores == {1}
\* Math.random() in thousandths
Randoms == {0, 500}
\* the frame clock's first timestamp, in microseconds
StartTime == 1000000

\* useState(0): lastPipeSpawn unset (the engine's previousTime null likewise)
Unset == 0

Min(a, b) == IF a < b THEN a ELSE b
Max(a, b) == IF a > b THEN a ELSE b
Abs(a) == IF a < 0 THEN -a ELSE a
\* pixels to x units
PX(p) == p * FRAME

VARIABLES
    gameState,       \* useState: mode (store)
    score,           \* useState: running score shown by the app (store)
    highScore,       \* useState: high score (store)
    lastPipeSpawn,   \* useState: clock time of the last spawn, 0 = unset (store)
    rendered,        \* the state values captured by the last render's closures
    entities,        \* the game engine's entities (exists = FALSE: null)
    body,            \* the Matter bodies of obstacle segments, by body id
    world,           \* bodies registered in engineRef.current.world
    gravity,         \* engine.world.gravity.y, in tenths
    engineGen,       \* which engine/world engineRef holds (setupWorld calls)
    events,          \* 'game-over' events dispatched and not yet delivered
    now,             \* the frame clock, microseconds
    previousTime,    \* the game engine's previous tick time (Unset after start)
    stored,          \* AsyncStorage 'FaceFly:highScore' (present = FALSE: no item)
    saves,           \* the values saveHighScore was invoked with, in order
    pending,         \* the strings of the setItem calls not yet completed
    nextId,          \* bodies created so far
    scoredPairs,     \* pairs marked scored in the current session
    taps,            \* taps handled since the last reset
    ticks,           \* frame ticks delivered
    lag,             \* frame ticks run with stale closures
    highAtStart,     \* highScore when the current session began (load or reset)
    timers,          \* setTimeout(resetGame) callbacks not yet run, oldest first:
                     \* for each, the entities object its closure holds
    closure,         \* the entities object the last render's closures hold:
                     \* "engine" (the one the game engine runs on) or "fresh"
    last             \* the last operation and what it read

vars == <<gameState, score, highScore, lastPipeSpawn, rendered, entities, body,
          world, gravity, engineGen, events, now, previousTime, stored, saves,
          pending, nextId, scoredPairs, taps, ticks, lag, highAtStart, timers,
          closure, last>>

store == [gameState |-> gameState, score |-> score, highScore |-> highScore,
          lastPipeSpawn |-> lastPipeSpawn]

NoOp == [op |-> "init", mode |-> READY, s |-> 0, h |-> 0, delta |-> 0,
         ok |-> TRUE,
         spawned |-> FALSE, dispatched |-> 0, t |-> 0]

\* ---- game/physics.ts ----

\* createBird: a circle at (SCREEN_WIDTH/4, SCREEN_HEIGHT/2), at rest
BIRD_X == PX(SCREEN_WIDTH) \div 4
\* (mutant) the avatar body of the first engine is reused
createBird_reused(id) ==
    [id |-> 0, y |-> (SCREEN_HEIGHT * 1000) \div 2, vx |-> 0, vy |-> 0,
     angle |-> 0]
createBird(id) ==
    [id |-> id, y |-> (SCREEN_HEIGHT * 1000) \div 2, vx |-> 0, vy |-> 0,
     angle |-> 0]

\* setupWorld: a new engine with gravity.y = 0.6
setupWorld == GRAVITY_Y

\* the beforeUpdate listener of setupBirdVelocityClamping
ClampVelocity(vy) ==
    IF vy > VY_MAX * 1000 THEN VY_MAX * 1000
    ELSE IF vy < VY_MIN * 1000 THEN VY_MIN * 1000
    ELSE vy

\* setVelocity(bird, {x: 0, y: clamped}) when the listener clamps
ClampVelocityX(vx, vy) ==
    IF vy > VY_MAX * 1000 \/ vy < VY_MIN * 1000 THEN 0 ELSE vx

\* gravity over one step: (g/10) * 0.001 px/ms^2 * dt^2, in 1/1000 px (the
\* coarser rounding of long steps keeps the product in range)
GravityStep(g, dt) ==
    IF Abs(dt) <= 40000
    THEN (g * ((dt * dt) \div 1000)) \div 10000
    ELSE (g * (dt \div 100) * (dt \div 100)) \div 1000

\* Matter.Engine.update(engine, dt) on the avatar: beforeUpdate listeners, then
\* one Verlet step with frictionAir 0.02 and the world's gravity
EngineUpdate(b, g, dt) ==
    LET v0 == ClampVelocity(b.vy)
        v1 == (v0 * 98) \div 100 + GravityStep(g, dt)
    IN  [b EXCEPT !.vx = (ClampVelocityX(b.vx, b.vy) * 98) \div 100,
                  !.vy = v1, !.y = b.y + v1]

\* (mutant) the delta is passed to the engine uncapped
CappedDelta_none(delta) == delta

\* Math.min(time.delta, 16.667)
CappedDelta(delta) == Min(delta, FRAME)

\* (mutant) the angle is not clamped
Rotation_unclamped(vy) == vy \div 10

\* Math.min(Math.max(vy * BIRD_ROTATION_FACTOR, -PI/4), PI/2)
Rotation(vy) == Min(Max(vy \div 10, ANGLE_MIN), ANGLE_MAX)

\* Matter.Query.collides(bird, [p]): the avatar's circle against a segment's
\* rectangle [x - W/2, x + W/2] x [lo, hi]; touching is no collision
Collides(b, p) ==
    LET dxu == Max(Abs(BIRD_X - p.x) - PX(PIPE_WIDTH) \div 2, 0)
        dy  == Max(Max(p.lo - b.y, b.y - p.hi), 0)
        r   == (BIRD_SIZE * 1000) \div 2
    IN  /\ dxu < PX(BIRD_SIZE) \div 2
        /\ dy < r
        /\ LET dx == (dxu * 1000) \div FRAME
           IN  dx * dx + dy * dy < r * r

\* (mutant) only the top of the screen bounds the avatar
OutOfBounds_topOnly(b) == b.y < 0

\* (mutant) the screen's edges count as out of bounds
OutOfBounds_inclusive(b) == b.y >= SCREEN_HEIGHT * 1000 \/ b.y <= 0

\* bird.position.y > SCREEN_HEIGHT || bird.position.y < 0
OutOfBounds(b) == b.y > SCREEN_HEIGHT * 1000 \/ b.y < 0

\* Physics: the entities after the step, and the number of 'game-over'
\* events it dispatches
PhysicsBird(b, g, delta) ==
    LET b1 == EngineUpdate(b, g, CappedDelta(delta))
    IN  [b1 EXCEPT !.angle = Rotation(b1.vy)]

PhysicsDispatch(b, pipes, bodies) ==
    (IF \E i \in 1..Len(pipes) : Collides(b, bodies[pipes[i]]) THEN 1 ELSE 0)
    + (IF OutOfBounds(b) THEN 1 ELSE 0)

\* (mutant) the flap is added to the current velocity
moveBird_additive(b) ==
    [b EXCEPT !.vx = 0, !.vy = @ + FLAP_VY * 1000, !.angle = FLAP_ANGLE]

\* moveBird: setVelocity(0, -8), setAngle(-PI/8)
moveBird(b) ==
    [b EXCEPT !.vx = 0, !.vy = FLAP_VY * 1000, !.angle = FLAP_ANGLE]

\* (mutant) the gap position leaves no minimum height above it
GapPosition_noMinimum(r) == r * (SCREEN_HEIGHT - PIPE_GAP)

\* createPipe(x) with Math.random() = r/1000: the two segments' vertical extents
GapPosition(r) ==
    MIN_PIPE_HEIGHT * 1000
    + (r * (SCREEN_HEIGHT - 2 * MIN_PIPE_HEIGHT - PIPE_GAP))
createPipeTop(x, r, id, pair) ==
    [id |-> id, pair |-> pair, x |-> x, lo |-> 0, hi |-> GapPosition(r),
     isTop |-> TRUE, scored |-> FALSE]
createPipeBottom(x, r, id, pair) ==
    [id |-> id, pair |-> pair, x |-> x,
     lo |-> SCREEN_HEIGHT * 1000
            - (SCREEN_HEIGHT * 1000 - GapPosition(r) - PIPE_GAP * 1000),
     hi |-> SCREEN_HEIGHT * 1000,
     isTop |-> FALSE, scored |-> FALSE]

\* ---- src/unnamed/part_000: the systems ----

SeqToSet(q) == {q[i] : i \in 1..Len(q)}

RECURSIVE FilterSeq_bottomsOnly(_, _)
\* (mutant) only bottom segments are tested against the left edge
FilterSeq_bottomsOnly(q, bodies) ==
    IF q = <<>> THEN <<>>
    ELSE IF bodies[Head(q)].isTop \/ bodies[Head(q)].x > -PX(PIPE_WIDTH)
         THEN <<Head(q)>> \o FilterSeq_bottomsOnly(Tail(q), bodies)
         ELSE FilterSeq_bottomsOnly(Tail(q), bodies)

RECURSIVE FilterSeq(_, _)
\* entities.pipes.filter(pipe => pipe.body.position.x > -PIPE_WIDTH)
FilterSeq(q, bodies) ==
    IF q = <<>> THEN <<>>
    ELSE IF bodies[Head(q)].x > -PX(PIPE_WIDTH)
         THEN <<Head(q)>> \o FilterSeq(Tail(q), bodies)
         ELSE FilterSeq(Tail(q), bodies)

\* the segment bodies some collection still refers to
Referenced(e, w, bodies) ==
    (SeqToSet(e.pipes) \cup {k.id : k \in e.keyed} \cup w) \cap DOMAIN bodies

\* the spawn test of SpawnPipes: !lastPipeSpawn || currentTime - lastPipeSpawn >= SPAWN_INTERVAL
SpawnDue(lps, t) == lps = Unset \/ t - lps >= SPAWN_INTERVAL * 1000

\* const pipeId = Date.now(), in ms
PipeId(t) == t \div 1000

\* the spawn block of SpawnPipes (lines 249-293): createPipe, World.add, the two
\* keyed entities, the tracking array
SpawnBlock(c, t, r) ==
    LET x   == PX(SCREEN_WIDTH + PIPE_WIDTH)
        top == createPipeTop(x, r, c.nextId, c.nextId)
        bot == createPipeBottom(x, r, c.nextId + 1, c.nextId)
        pid == PipeId(t)
        e   == c.entities
    IN  [c EXCEPT
            !.body = [i \in DOMAIN c.body \cup {top.id, bot.id} |->
                        IF i = top.id THEN top
                        ELSE IF i = bot.id THEN bot ELSE c.body[i]],
            !.world = c.world \cup {top.id, bot.id},
            !.entities = [e EXCEPT
                !.keyed = {k \in e.keyed : k.pid # pid}
                          \cup {[role |-> "top", pid |-> pid, id |-> top.id],
                                [role |-> "bottom", pid |-> pid, id |-> bot.id]},
                !.pipes = e.pipes \o <<top.id, bot.id>>],
            !.nextId = c.nextId + 2,
            !.lastPipeSpawn = t,
            !.spawned = TRUE]

\* (mutant) the delta is capped at one frame, as the Physics step does
MoveAmount_capped(delta) == PIPE_SPEED * Min(delta, FRAME)

\* (mutant) the segments are moved to the right
MoveAmount_reversed(delta) == -(PIPE_SPEED * delta)

\* moveAmount = (PIPE_SPEED * time.delta) / 16.667, in 1/16667 px
MoveAmount(delta) == PIPE_SPEED * delta

\* the move and clean-up block of SpawnPipes (lines 295-322)
MoveBlock(c, delta) ==
    LET e      == c.entities
        inArr  == SeqToSet(e.pipes)
        moved  == [i \in DOMAIN c.body |->
                     IF i \in inArr
                     THEN [c.body[i] EXCEPT !.x = @ - MoveAmount(delta)]
                     ELSE c.body[i]]
        gone   == {k \in e.keyed : moved[k.id].x < -PX(PIPE_WIDTH)}
        e1     == [e EXCEPT !.keyed = e.keyed \ gone,
                            !.pipes = FilterSeq(e.pipes, moved)]
        w1     == c.world \ {k.id : k \in gone}
    IN  IF e.pipes = <<>> THEN c
        ELSE [c EXCEPT
                !.entities = e1,
                !.world = w1,
                !.body = [i \in Referenced(e1, w1, moved) |-> moved[i]]]

\* SpawnPipes(entities, {time}) as the last render closed over it: mode is the
\* rendered gameState, lps the rendered lastPipeSpawn
SpawnPipes(c, mode, lps, t, delta, r) ==
    IF ~c.entities.exists \/ mode # PLAYING THEN c
    ELSE MoveBlock(IF SpawnDue(lps, t) THEN SpawnBlock(c, t, r) ELSE c, delta)

\* (mutant) top segments are counted too
Passed_bothRoles(e, bodies) ==
    {i \in SeqToSet(e.pipes) :
        /\ ~bodies[i].scored
        /\ BIRD_X > bodies[i].x + PX(PIPE_WIDTH) \div 2}

\* the bottom segments ScoreSystem marks in this call
Passed(e, bodies) ==
    {i \in SeqToSet(e.pipes) :
        /\ ~bodies[i].isTop
        /\ ~bodies[i].scored
        /\ BIRD_X > bodies[i].x + PX(PIPE_WIDTH) \div 2}

\* ScoreSystem(entities) as the last render closed over it
ScoreSystem(c, mode) ==
    IF mode # PLAYING THEN c
    ELSE LET hit == Passed(c.entities, c.body)
             n   == c.entities.score + Cardinality(hit)
         IN  [c EXCEPT
                !.body = [i \in DOMAIN c.body |->
                            IF i \in hit THEN [c.body[i] EXCEPT !.scored = TRUE]
                            ELSE c.body[i]],
                !.entities = [c.entities EXCEPT !.score = n],
                !.score = n,
                !.scoredPairs = c.scoredPairs \cup {c.body[i].pair : i \in hit}]

\* the Physics system on the engine's entities
Physics(c, delta) ==
    LET b == PhysicsBird(c.entities.bird, c.gravity, delta)
    IN  [c EXCEPT
            !.entities = [c.entities EXCEPT !.bird = b],
            !.dispatched = PhysicsDispatch(b, c.entities.pipes, c.body)]

\* the systems prop: Physics, SpawnPipes, ScoreSystem, in this order
Systems(c, mode, lps, t, delta, r) ==
    ScoreSystem(SpawnPipes(Physics(c, delta), mode, lps, t, delta, r), mode)

\* ---- src/unnamed/part_000: the App component ----

\* the id of the avatar body of engine generation g (createBird is called once
\* per setupWorld)
NoBodies == [i \in {} |-> 0]

NullEntities ==
    [exists |-> FALSE, bird |-> createBird(0), pipes |-> <<>>, keyed |-> {},
     score |-> 0, gameStateCurrent |-> READY]

\* the entities object initializeGame and resetGame build
FreshEntities(bird) ==
    [exists |-> TRUE, bird |-> bird, pipes |-> <<>>, keyed |-> {},
     score |-> 0, gameStateCurrent |-> READY]

\* newHighScore.toString(): the decimal digits of an integer >= 0
RECURSIVE toString(_)
toString(n) == IF n < 10 THEN <<n>> ELSE toString(n \div 10) \o <<n % 10>>

\* parseInt(savedScore, 10) of a string of decimal digits
RECURSIVE parseInt(_)
parseInt(q) ==
    IF Len(q) = 1 THEN q[1]
    ELSE parseInt(SubSeq(q, 1, Len(q) - 1)) * 10 + q[Len(q)]

\* (mutant) a value is used although the read threw
loadedHighScore_ignoresFailure(st, fails, cur) ==
    IF st.present THEN parseInt(st.value) ELSE cur

\* the high score after the try/catch of initializeGame (lines 44-54):
\* getItem returned st (or threw), cur is the useState value
loadedHighScore(st, fails, cur) ==
    IF st.present /\ ~fails THEN parseInt(st.value) ELSE cur

\* App(): useState/useRef initial values; AsyncStorage holds what an earlier
\* run of the app saved, if anything
Init ==
    /\ gameState = READY
    /\ score = 0
    /\ highScore = 0
    /\ lastPipeSpawn = Unset
    /\ rendered = [gameState |-> READY, score |-> 0, highScore |-> 0,
                   lastPipeSpawn |-> Unset]
    /\ entities = NullEntities
    /\ body = NoBodies
    /\ world = {}
    /\ gravity = setupWorld
    /\ engineGen = 1
    /\ events = 0
    /\ now = StartTime
    /\ previousTime = Unset
    /\ stored \in {[present |-> FALSE, value |-> <<>>]}
                  \cup {[present |-> TRUE, value |-> toString(v)] :
                           v \in SavedScores}
    /\ saves = <<>>
    /\ pending = <<>>
    /\ nextId = 1
    /\ scoredPairs = {}
    /\ taps = 0
    /\ ticks = 0
    /\ lag = 0
    /\ timers = <<>>
    /\ closure = "engine"
    /\ highAtStart = 0
    /\ last = NoOp

\* the game engine starts its timer (and forgets its previous tick time) when
\* its running prop turns true
PreviousTimeAfterRender(before, after) ==
    IF before.gameState # PLAYING /\ after.gameState = PLAYING
    THEN Unset ELSE previousTime

\* initializeGame (lines 43-79) and the render that mounts the game engine;
\* fails: AsyncStorage.getItem throws
initializeGame(fails) ==
    /\ ~entities.exists
    /\ highScore' = loadedHighScore(stored, fails, highScore)
    /\ world' = world \cup {0}
    /\ entities' = FreshEntities(createBird(0))
    /\ rendered' = [store EXCEPT !.highScore = highScore']
    /\ highAtStart' = highScore'
    /\ last' = [NoOp EXCEPT !.op = "initializeGame", !.h = highScore',
                            !.ok = ~fails]
    /\ UNCHANGED <<timers, closure, gameState, score, lastPipeSpawn, body,
                   gravity, engineGen, events, now, previousTime, stored,
                   saves, pending, nextId, scoredPairs, taps, ticks, lag>>

\* startGame (lines 221-230), on the store and the entities
startGame(st) == [st EXCEPT !.gameState = PLAYING, !.lastPipeSpawn = Unset]

\* handleFlap (lines 354-362): the store and the entities after a tap handled
\* by the closure of the last render
handleFlapStore(mode, st) == IF mode = READY THEN startGame(st) ELSE st

\* (mutant) the tap that starts the game does not flap
handleFlapEntities_noFlapOnStart(mode, e) ==
    IF mode = READY THEN [e EXCEPT !.gameStateCurrent = PLAYING]
    ELSE IF mode = PLAYING THEN [e EXCEPT !.bird = moveBird(e.bird)]
    ELSE e

handleFlapEntities(mode, e) ==
    IF mode = READY
    THEN [e EXCEPT !.gameStateCurrent = PLAYING, !.bird = moveBird(e.bird)]
    ELSE IF mode = PLAYING THEN [e EXCEPT !.bird = moveBird(e.bird)]
    ELSE e

\* a tap: handleFlap, then React renders (a press flushes synchronously)
Tap ==
    /\ entities.exists
    /\ taps < MaxTaps
    /\ LET st == handleFlapStore(rendered.gameState, store)
       IN  /\ gameState' = st.gameState
           /\ lastPipeSpawn' = st.lastPipeSpawn
           /\ rendered' = st
           /\ previousTime' = PreviousTimeAfterRender(rendered, st)
    /\ entities' = handleFlapEntities(rendered.gameState, entities)
    /\ taps' = taps + 1
    /\ lag' = lag
    /\ last' = [NoOp EXCEPT !.op = "handleFlap", !.mode = rendered.gameState]
    /\ UNCHANGED <<timers, closure, score, highScore, body, world, gravity,
                   engineGen, events, now, stored, saves, pending, nextId,
                   scoredPairs, ticks, highAtStart>>

\* onEvent({type: 'game-over'}) (lines 123-137) as the last render closed over
\* score and highScore: the high score it sets and the saves it starts
\* (mutant) the high score is set to the session's score unconditionally
onEventHighScore_always(s, h, cur) == s
onEventHighScore(s, h, cur) == IF s > h THEN s ELSE cur
\* (mutant) a tie overwrites and saves
onEventSaves_tie(s, h, sv) == IF s >= h THEN Append(sv, s) ELSE sv
onEventSaves(s, h, sv) == IF s > h THEN Append(sv, s) ELSE sv

\* a dispatched 'game-over' event reaches onEvent (zero-delay timeout)
Deliver ==
    /\ events > 0
    /\ events' = events - 1
    /\ taps' = taps
    /\ gameState' = GAME_OVER
    /\ highScore' = onEventHighScore(rendered.score, rendered.highScore, highScore)
    /\ saves' = onEventSaves(rendered.score, rendered.highScore, saves)
    /\ pending' = IF saves' = saves THEN pending
                  ELSE Append(pending, toString(saves'[Len(saves')]))
    /\ last' = [NoOp EXCEPT !.op = "onEvent", !.mode = gameState,
                            !.s = rendered.score, !.h = rendered.highScore]
    /\ UNCHANGED <<timers, closure, score, lastPipeSpawn, rendered, entities,
                   body, world, gravity, engineGen, now, previousTime, stored,
                   nextId, scoredPairs, ticks, lag, highAtStart>>

\* (mutant) a failed write resets the high score
saveHighScoreStore_rollback(st, ok) ==
    IF ok THEN st ELSE [st EXCEPT !.highScore = 0]

\* the React state after saveHighScore's promise settles (lines 114-121):
\* the catch block only logs
saveHighScoreStore(st, ok) == st

\* the item after AsyncStorage.setItem(key, str) settles
setItem(item, str, ok) ==
    IF ok THEN [present |-> TRUE, value |-> str] ELSE item

\* a setItem call started by saveHighScore settles (in any order), with
\* success or with an error that saveHighScore catches
WriteDone(i, ok) ==
    /\ i \in 1..Len(pending)
    /\ stored' = setItem(stored, pending[i], ok)
    /\ pending' = SubSeq(pending, 1, i - 1) \o SubSeq(pending, i + 1, Len(pending))
    /\ LET st == saveHighScoreStore(store, ok)
       IN  /\ gameState' = st.gameState
           /\ score' = st.score
           /\ highScore' = st.highScore
           /\ lastPipeSpawn' = st.lastPipeSpawn
    /\ last' = [NoOp EXCEPT !.op = "saveHighScore", !.mode = gameState,
                            !.s = parseInt(pending[i]), !.ok = ok]
    /\ UNCHANGED <<timers, closure, rendered, entities, body, world, gravity,
                   engineGen, events, now, previousTime, saves, nextId,
                   scoredPairs, taps, ticks, lag, highAtStart>>

\* React re-renders App: the closures and the engine's props now hold the store
Render ==
    /\ rendered # store
    /\ rendered' = store
    /\ previousTime' = PreviousTimeAfterRender(rendered, store)
    /\ lag' = lag
    /\ taps' = taps
    /\ last' = [NoOp EXCEPT !.op = "render", !.mode = gameState]
    /\ UNCHANGED <<timers, closure, gameState, score, highScore,
                   lastPipeSpawn, entities, body, world, gravity, engineGen,
                   events, now, stored, saves, pending, nextId, scoredPairs,
                   ticks, highAtStart>>

\* resetGame (lines 144-219): the store after it
resetGameStore(st) ==
    [st EXCEPT !.score = 0, !.gameState = READY, !.lastPipeSpawn = Unset]

\* the Restart button (shown while the rendered mode is GAME_OVER):
\* handleRestart -> resetGame, the engine swaps to the fresh entities, and
\* React renders
handleRestart ==
    /\ entities.exists
    /\ rendered.gameState = GAME_OVER
    /\ LET st == resetGameStore(store)
       IN  /\ gameState' = st.gameState
           /\ score' = st.score
           /\ lastPipeSpawn' = st.lastPipeSpawn
           /\ rendered' = st
    /\ engineGen' = engineGen + 1
    /\ gravity' = setupWorld
    /\ world' = {nextId}
    /\ entities' = FreshEntities(createBird(nextId))
    /\ nextId' = nextId + 1
    /\ body' = NoBodies
    /\ scoredPairs' = {}
    /\ highAtStart' = highScore
    /\ previousTime' = Unset
    /\ taps' = 0
    /\ lag' = lag
    /\ last' = [NoOp EXCEPT !.op = "resetGame", !.mode = rendered.gameState,
                            !.s = entities.score, !.h = highScore]
    /\ UNCHANGED <<timers, closure, highScore, events, now, stored, saves,
                   pending, ticks>>

\* what the systems read and write during one tick
Context ==
    [entities |-> entities, body |-> body, world |-> world, nextId |-> nextId,
     gravity |-> gravity, score |-> score, lastPipeSpawn |-> lastPipeSpawn,
     scoredPairs |-> scoredPairs, spawned |-> FALSE, dispatched |-> 0]

\* the frame timer fires at clock time now + d while the engine is running:
\* the engine runs the systems of the last render on its entities
Tick(d, r) ==
    /\ entities.exists
    /\ rendered.gameState = PLAYING
    /\ ticks < MaxTicks
    /\ rendered # store => lag < MaxLag
    /\ \E t \in {now + d} :
       \E delta \in {IF previousTime = Unset THEN 0 ELSE t - previousTime} :
       \E c \in {Systems(Context, rendered.gameState, rendered.lastPipeSpawn,
                         t, delta, r)} :
           /\ entities' = c.entities
           /\ body' = c.body
           /\ world' = c.world
           /\ nextId' = c.nextId
           /\ score' = c.score
           /\ lastPipeSpawn' = c.lastPipeSpawn
           /\ scoredPairs' = c.scoredPairs
           /\ events' = events + c.dispatched
           /\ now' = t
           /\ previousTime' = t
           /\ ticks' = ticks + 1
           /\ taps' = taps
           /\ lag' = IF rendered # store THEN lag + 1 ELSE lag
           /\ last' = [NoOp EXCEPT !.op = "tick", !.mode = rendered.gameState,
                                   !.delta = delta, !.spawned = c.spawned,
                                   !.dispatched = c.dispatched, !.t = t]
    /\ UNCHANGED <<timers, closure, gameState, highScore, rendered, gravity,
                   engineGen, stored, saves, pending, highAtStart>>

Next ==
    \/ \E fails \in BOOLEAN : initializeGame(fails)
    \/ Tap
    \/ \E d \in Deltas, r \in Randoms : Tick(d, r)
    \/ Deliver
    \/ Render
    \/ handleRestart
    \/ \E i \in 1..2, ok \in BOOLEAN : WriteDone(i, ok)

Spec == Init /\ [][Next]_vars

TypeOK ==
    /\ gameState \in GAME_STATES
    /\ rendered.gameState \in GAME_STATES
    /\ events \in Nat
    /\ score \in Nat

\* ---- the Physics system on its own (game/physics.ts, Physics) ----

\* the avatar velocities (1/1000 px per step), heights and world gravities
\* (tenths) the step is applied to, the deltas it is called with, and the x of
\* the one pipe pair in entities.pipes (at the avatar, or at the spawn point);
\* gravity 1.2 is GRAVITY of the second constants file
PreVelocities == {-20000, FLAP_VY * 1000, 0, 15000, 20000}
PreHeights == {0, (SCREEN_HEIGHT * 1000) \div 2, SCREEN_HEIGHT * 1000}
Gravities == {GRAVITY_Y, 2 * GRAVITY_Y}
PhysicsDeltas == {-FRAME, 0, FRAME, 90 * FRAME}
PipeXs == {BIRD_X, PX(SCREEN_WIDTH + PIPE_WIDTH)}

InitPhysics ==
    /\ gameState = PLAYING
    /\ score = 0
    /\ highScore = 0
    /\ lastPipeSpawn = Unset
    /\ rendered = [gameState |-> PLAYING, score |-> 0, highScore |-> 0,
                   lastPipeSpawn |-> Unset]
    /\ \E vy \in PreVelocities, y \in PreHeights :
          entities = [FreshEntities([createBird(0) EXCEPT !.vy = vy, !.y = y])
                         EXCEPT !.gameStateCurrent = PLAYING,
                                !.pipes = <<1, 2>>,
                                !.keyed = {[role |-> "top",
                                            pid |-> PipeId(StartTime), id |-> 1],
                                           [role |-> "bottom",
                                            pid |-> PipeId(StartTime), id |-> 2]}]
    /\ \E x \in PipeXs :
          body = [i \in {1, 2} |-> IF i = 1 THEN createPipeTop(x, 500, 1, 1)
                                   ELSE createPipeBottom(x, 500, 2, 1)]
    /\ world = {0, 1, 2}
    /\ gravity \in Gravities
    /\ engineGen = 1
    /\ events = 0
    /\ now = StartTime
    /\ previousTime = Unset
    /\ stored = [present |-> FALSE, value |-> <<>>]
    /\ saves = <<>>
    /\ pending = <<>>
    /\ nextId = 3
    /\ scoredPairs = {}
    /\ taps = 0
    /\ ticks = 0
    /\ lag = 0
    /\ timers = <<>>
    /\ closure = "engine"
    /\ highAtStart = 0
    /\ last = NoOp

\* one call Physics(entities, {time: {delta}, dispatch})
PhysicsStep(delta) ==
    /\ ticks < MaxTicks
    /\ \E c \in {Physics(Context, delta)} :
          /\ entities' = c.entities
          /\ events' = events + c.dispatched
          /\ last' = [NoOp EXCEPT !.op = "Physics", !.mode = PLAYING,
                                  !.delta = delta,
                                  !.dispatched = c.dispatched]
    /\ ticks' = ticks + 1
    /\ UNCHANGED <<timers, closure, gameState, score, highScore,
                   lastPipeSpawn, rendered, body, world, gravity, engineGen,
                   now, previousTime, stored, saves, pending, nextId,
                   scoredPairs, taps, lag, highAtStart>>

\* a tap between two steps: moveBird on the avatar
PhysicsFlap ==
    /\ taps < MaxTaps
    /\ entities' = [entities EXCEPT !.bird = moveBird(entities.bird)]
    /\ taps' = taps + 1
    /\ last' = [NoOp EXCEPT !.op = "moveBird", !.mode = PLAYING]
    /\ UNCHANGED <<timers, closure, gameState, score, highScore,
                   lastPipeSpawn, rendered, body, world, gravity, engineGen,
                   events, now, previousTime, stored, saves, pending, nextId,
                   scoredPairs, ticks, lag, highAtStart>>

NextPhysics ==
    \/ \E delta \in PhysicsDeltas : PhysicsStep(delta)
    \/ PhysicsFlap

SpecPhysics == InitPhysics /\ [][NextPhysics]_vars

\* ---- createPipe and the SpawnPipes system on their own ----

\* the state a session starts in: initializeGame has run and a tap in READY
\* has started the game
InitPlaying ==
    /\ gameState = PLAYING
    /\ score = 0
    /\ highScore = 0
    /\ lastPipeSpawn = Unset
    /\ rendered = [gameState |-> PLAYING, score |-> 0, highScore |-> 0,
                   lastPipeSpawn |-> Unset]
    /\ entities = handleFlapEntities(READY, FreshEntities(createBird(0)))
    /\ body = NoBodies
    /\ world = {0}
    /\ gravity = setupWorld
    /\ engineGen = 1
    /\ events = 0
    /\ now = StartTime
    /\ previousTime = Unset
    /\ stored = [present |-> FALSE, value |-> <<>>]
    /\ saves = <<>>
    /\ pending = <<>>
    /\ nextId = 1
    /\ scoredPairs = {}
    /\ taps = 1
    /\ ticks = 0
    /\ lag = 0
    /\ timers = <<>>
    /\ closure = "engine"
    /\ highAtStart = 0
    /\ last = NoOp

\* Math.random() in thousandths
PipeRandoms == 0..999

\* the spawn block of SpawnPipes calls createPipe(SCREEN_WIDTH + PIPE_WIDTH)
\* with the draw r
CreatePipe(r) ==
    /\ entities.pipes = <<>>
    /\ \E c \in {SpawnBlock(Context, now, r)} :
          /\ entities' = c.entities
          /\ body' = c.body
          /\ world' = c.world
          /\ nextId' = c.nextId
          /\ lastPipeSpawn' = c.lastPipeSpawn
          /\ rendered' = [rendered EXCEPT !.lastPipeSpawn = c.lastPipeSpawn]
    /\ last' = [NoOp EXCEPT !.op = "createPipe", !.mode = PLAYING,
                            !.spawned = TRUE, !.t = r]
    /\ UNCHANGED <<timers, closure, gameState, score, highScore, gravity,
                   engineGen, events, now, previousTime, stored, saves,
                   pending, scoredPairs, taps, ticks, lag, highAtStart>>

NextCreatePipe == \E r \in PipeRandoms : CreatePipe(r)

SpecCreatePipe == InitPlaying /\ [][NextCreatePipe]_vars

\* the deltas SpawnPipes is called with: none, a frame, and pauses of 1 s and
\* 1.5 s
PipeDeltas == {0, FRAME, 60 * FRAME, 90 * FRAME}

\* one call SpawnPipes(entities, {time}) at clock time now + d, by a render
\* that has seen every earlier setLastPipeSpawn
PipesTick(d, r) ==
    /\ ticks < MaxTicks
    /\ \E t \in {now + d} :
       \E delta \in {IF previousTime = Unset THEN 0 ELSE t - previousTime} :
       \E c \in {SpawnPipes(Context, PLAYING, lastPipeSpawn, t, delta, r)} :
          /\ entities' = c.entities
          /\ body' = c.body
          /\ world' = c.world
          /\ nextId' = c.nextId
          /\ lastPipeSpawn' = c.lastPipeSpawn
          /\ rendered' = [rendered EXCEPT !.lastPipeSpawn = c.lastPipeSpawn]
          /\ now' = t
          /\ previousTime' = t
          /\ last' = [NoOp EXCEPT !.op = "SpawnPipes", !.mode = PLAYING,
                                  !.delta = delta, !.spawned = c.spawned,
                                  !.t = t]
    /\ ticks' = ticks + 1
    /\ UNCHANGED <<timers, closure, gameState, score, highScore, gravity,
                   engineGen, events, stored, saves, pending, scoredPairs,
                   taps, lag, highAtStart>>

NextPipes == \E d \in PipeDeltas, r \in Randoms : PipesTick(d, r)

SpecPipes == InitPlaying /\ [][NextPipes]_vars

\* ---- the end of a later session and the writes in flight ----

\* scores of the session that ends, and high scores held when it ends
SessionScores == 0..3
HighScores == 0..2

\* the item when the session ends, given the high score h in memory: absent
\* (first run), or a number saved by an earlier run (the read having thrown
\* when it differs from h with no write in flight)
ItemsAtEnd == {[present |-> FALSE, value |-> <<>>]}
                \cup {[present |-> TRUE, value |-> toString(v)] : v \in 1..2}

\* a tick of a session has just dispatched 'game-over' with the score
\* rendered; the save of the previous session's high score may still be in
\* flight; no write has failed
InitSessionEnd ==
    /\ gameState = PLAYING
    /\ score \in SessionScores
    /\ highScore \in HighScores
    /\ lastPipeSpawn = Unset
    /\ rendered = [gameState |-> PLAYING, score |-> score,
                   highScore |-> highScore, lastPipeSpawn |-> Unset]
    /\ entities = [handleFlapEntities(READY, FreshEntities(createBird(0)))
                      EXCEPT !.score = score]
    /\ body = NoBodies
    /\ world = {0}
    /\ gravity = setupWorld
    /\ engineGen = 2
    /\ events = 1
    /\ now = StartTime
    /\ previousTime = StartTime
    /\ pending \in {<<>>} \cup {<<toString(highScore)>> : x \in {1} \cap 1..highScore}
    /\ stored \in {i \in ItemsAtEnd :
                     (pending = <<>> /\ highScore > 0) =>
                         (i.present /\ parseInt(i.value) = highScore)}
    /\ saves = IF highScore > 0 THEN <<highScore>> ELSE <<>>
    /\ nextId = 1
    /\ scoredPairs = {}
    /\ taps = 1
    /\ ticks = 1
    /\ lag = 0
    /\ timers = <<>>
    /\ closure = "engine"
    /\ highAtStart = highScore
    /\ last = [NoOp EXCEPT !.op = "tick", !.mode = PLAYING, !.dispatched = 1]

\* the event is handled, React renders, and the writes settle successfully in
\* any order
NextSaves ==
    \/ Deliver
    \/ Render
    \/ \E i \in 1..2 : WriteDone(i, TRUE)

SpecSaves == InitSessionEnd /\ [][NextSaves]_vars

\* ---- src/unnamed/part_004: the legacy createPipe ----

\* MAX_PIPE_HEIGHT = SCREEN_HEIGHT - PIPE_GAP - MIN_PIPE_HEIGHT
MAX_PIPE_HEIGHT == SCREEN_HEIGHT - PIPE_GAP - MIN_PIPE_HEIGHT

\* gapPosition = Math.random() * (MAX_PIPE_HEIGHT - MIN_PIPE_HEIGHT)
\*               + MIN_PIPE_HEIGHT, in 1/1000 px, with Math.random() = r/1000
LegacyGapPosition(r) ==
    r * (MAX_PIPE_HEIGHT - MIN_PIPE_HEIGHT) + MIN_PIPE_HEIGHT * 1000

\* Bodies.rectangle(x, cy, w, h) spans [cy - h/2, cy + h/2] vertically
RectLo(cy, h) == cy - h \div 2
RectHi(cy, h) == cy + h \div 2

\* topPipe: centre gapPosition - PIPE_GAP/2, height gapPosition
LegacyPipeTop(x, r, id, pair) ==
    LET gp == LegacyGapPosition(r)
        cy == gp - (PIPE_GAP * 1000) \div 2
    IN  [id |-> id, pair |-> pair, x |-> x,
         lo |-> RectLo(cy, gp), hi |-> RectHi(cy, gp),
         isTop |-> TRUE, scored |-> FALSE]

\* bottomPipe: height SCREEN_HEIGHT - gapPosition - PIPE_GAP/2, centre
\* gapPosition + PIPE_GAP/2 + height/2
LegacyPipeBottom(x, r, id, pair) ==
    LET gp == LegacyGapPosition(r)
        h  == SCREEN_HEIGHT * 1000 - gp - (PIPE_GAP * 1000) \div 2
        cy == gp + (PIPE_GAP * 1000) \div 2 + h \div 2
    IN  [id |-> id, pair |-> pair, x |-> x,
         lo |-> RectLo(cy, h), hi |-> RectHi(cy, h),
         isTop |-> FALSE, scored |-> FALSE]

\* createPipe(x) of part_004 with the draw r; the pair joins entities.pipes
LegacyCreatePipe(r) ==
    /\ entities.pipes = <<>>
    /\ LET x   == PX(SCREEN_WIDTH + PIPE_WIDTH)
           top == LegacyPipeTop(x, r, nextId, nextId)
           bot == LegacyPipeBottom(x, r, nextId + 1, nextId)
       IN  /\ body' = [i \in DOMAIN body \cup {top.id, bot.id} |->
                         IF i = top.id THEN top
                         ELSE IF i = bot.id THEN bot ELSE body[i]]
           /\ world' = world \cup {top.id, bot.id}
           /\ entities' = [entities EXCEPT !.pipes = <<top.id, bot.id>>]
    /\ nextId' = nextId + 2
    /\ last' = [NoOp EXCEPT !.op = "legacyCreatePipe", !.mode = PLAYING,
                            !.spawned = TRUE, !.t = r]
    /\ UNCHANGED <<timers, closure, gameState, score, highScore,
                   lastPipeSpawn, rendered, gravity, engineGen, events, now,
                   previousTime, stored, saves, pending, scoredPairs, taps,
                   ticks, lag, highAtStart>>

NextLegacyCreatePipe == \E r \in PipeRandoms : LegacyCreatePipe(r)

SpecLegacyCreatePipe == InitPlaying /\ [][NextLegacyCreatePipe]_vars

\* ---- a session left to itself: the frame clock keeps ticking ----

\* frames a session is followed for
MaxFrames == 200

\* frame deltas: the display's frame period
FrameDeltas == {FRAME}

\* the guard of the frame timer: the engine is running, and the zero-delay
\* timeouts of the last tick's dispatches have fired (they precede the next
\* frame, 16.667 ms later)
FrameDue ==
    /\ entities.exists
    /\ rendered.gameState = PLAYING
    /\ events = 0
    /\ ticks < MaxFrames
    /\ rendered # store => lag < MaxLag

\* the frame timer fires while the engine is running (Tick, followed for
\* MaxFrames frames)
FrameTick(d, r) ==
    /\ FrameDue
    /\ \E t \in {now + d} :
       \E delta \in {IF previousTime = Unset THEN 0 ELSE t - previousTime} :
       \E c \in {Systems(Context, rendered.gameState, rendered.lastPipeSpawn,
                         t, delta, r)} :
           /\ entities' = c.entities
           /\ body' = c.body
           /\ world' = c.world
           /\ nextId' = c.nextId
           /\ score' = c.score
           /\ lastPipeSpawn' = c.lastPipeSpawn
           /\ scoredPairs' = c.scoredPairs
           /\ events' = events + c.dispatched
           /\ now' = t
           /\ previousTime' = t
           /\ ticks' = ticks + 1
           /\ taps' = taps
           /\ lag' = IF rendered # store THEN lag + 1 ELSE lag
           /\ last' = [NoOp EXCEPT !.op = "tick", !.mode = rendered.gameState,
                                   !.delta = delta, !.spawned = c.spawned,
                                   !.dispatched = c.dispatched, !.t = t]
    /\ UNCHANGED <<timers, closure, gameState, highScore, rendered, gravity,
                   engineGen, stored, saves, pending, highAtStart>>

FrameTicks == \E d \in FrameDeltas, r \in Randoms : FrameTick(d, r)

NextFrames ==
    \/ FrameTicks
    \/ Deliver
    \/ Render

\* a step of the frame timer: FrameTicks is enabled exactly when FrameDue
\* holds, and it is the only action that advances ticks
FrameClock == FrameDue /\ ticks' = ticks + 1

\* the frame timer keeps firing while the engine runs, the zero-delay timeout
\* of a dispatch fires, and React renders a pending update
SpecFrames ==
    /\ InitPlaying
    /\ [][NextFrames]_vars
    /\ WF_ticks(FrameClock)
    /\ WF_vars(Deliver)
    /\ WF_vars(Render)

\* ---- src/unnamed/part_001: the variant that restarts by itself ----

\* the engine and the avatar body live in refs (lines 38-39) and the game
\* engine is mounted once, on the entities object initializeGame built; the
\* systems are those of part_000

\* the state after initializeGame and the render that mounts the game engine
InitAuto ==
    /\ gameState = READY
    /\ score = 0
    /\ highScore = 0
    /\ lastPipeSpawn = Unset
    /\ rendered = [gameState |-> READY, score |-> 0, highScore |-> 0,
                   lastPipeSpawn |-> Unset]
    /\ entities = FreshEntities(createBird(0))
    /\ body = NoBodies
    /\ world = {0}
    /\ gravity = setupWorld
    /\ engineGen = 1
    /\ events = 0
    /\ now = StartTime
    /\ previousTime = Unset
    /\ stored = [present |-> FALSE, value |-> <<>>]
    /\ saves = <<>>
    /\ pending = <<>>
    /\ nextId = 1
    /\ scoredPairs = {}
    /\ taps = 0
    /\ ticks = 0
    /\ lag = 0
    /\ timers = <<>>
    /\ closure = "engine"
    /\ highAtStart = 0
    /\ last = NoOp

\* startGame (lines 182-186)
AutoStartGame(st) == [st EXCEPT !.gameState = PLAYING, !.lastPipeSpawn = Unset]

\* handleFlap (lines 306-314): entities.bird.body is the avatar body of the
\* ref whichever entities object the closure holds
AutoHandleFlap ==
    /\ taps < MaxTaps
    /\ LET st == IF rendered.gameState = READY THEN AutoStartGame(store)
                 ELSE store
       IN  /\ gameState' = st.gameState
           /\ lastPipeSpawn' = st.lastPipeSpawn
           /\ rendered' = st
           /\ previousTime' = PreviousTimeAfterRender(rendered, st)
    /\ entities' = IF rendered.gameState \in {READY, PLAYING}
                   THEN [entities EXCEPT !.bird = moveBird(@)]
                   ELSE entities
    /\ taps' = taps + 1
    /\ last' = [NoOp EXCEPT !.op = "handleFlap", !.mode = rendered.gameState]
    /\ UNCHANGED <<timers, closure, score, highScore, body, world, gravity,
                   engineGen, events, now, stored, saves, pending, nextId,
                   scoredPairs, ticks, lag, highAtStart>>

\* onEvent({type: 'game-over'}) (lines 123-134): like part_000's, and every
\* call starts a timer whose callback is the resetGame of this render
AutoOnEvent ==
    /\ events > 0
    /\ events' = events - 1
    /\ gameState' = GAME_OVER
    /\ highScore' = onEventHighScore(rendered.score, rendered.highScore, highScore)
    /\ saves' = onEventSaves(rendered.score, rendered.highScore, saves)
    /\ pending' = IF saves' = saves THEN pending
                  ELSE Append(pending, toString(saves'[Len(saves')]))
    /\ timers' = Append(timers, closure)
    /\ last' = [NoOp EXCEPT !.op = "onEvent", !.mode = gameState,
                            !.s = rendered.score, !.h = rendered.highScore]
    /\ UNCHANGED <<closure, score, lastPipeSpawn, rendered, entities, body,
                   world, gravity, engineGen, now, previousTime, stored, nextId,
                   scoredPairs, taps, ticks, lag, highAtStart>>

\* the entities object the game engine runs on after resetGame (lines
\* 136-157): held == the closure's entities is that object. The bodies of its
\* pipes leave the Matter world and its pipe_ keys are deleted; its pipes
\* array and its score are not touched. The avatar body is put back.
AutoResetEntities(e, held) ==
    [e EXCEPT !.keyed = IF held THEN {} ELSE @, !.bird = createBird(@.id)]

AutoResetWorld(e, w, held) ==
    IF held THEN w \ {e.pipes[i] : i \in DOMAIN e.pipes} ELSE w

\* the oldest timer fires, 2 s after it was set (React has rendered and the
\* zero-delay timeouts have run): resetGame (lines 136-180) as its render
\* closed over entities; setEntities hands React a new object, the engine is
\* not told (no swap, and the entities prop is read at mount only)
AutoResetGame ==
    /\ timers # <<>>
    /\ rendered = store
    /\ events = 0
    /\ timers' = Tail(timers)
    /\ entities' = AutoResetEntities(entities, Head(timers) = "engine")
    /\ world' = AutoResetWorld(entities, world, Head(timers) = "engine")
    /\ LET st == resetGameStore(store)
       IN  /\ gameState' = st.gameState
           /\ score' = st.score
           /\ lastPipeSpawn' = st.lastPipeSpawn
           /\ rendered' = st
    /\ closure' = "fresh"
    /\ highAtStart' = highScore
    /\ last' = [NoOp EXCEPT !.op = "resetGame", !.mode = gameState,
                            !.s = entities.score, !.h = highScore]
    /\ UNCHANGED <<highScore, body, gravity, engineGen, events, now,
                   previousTime, stored, saves, pending, nextId, scoredPairs,
                   taps, ticks, lag>>

NextAuto ==
    \/ AutoHandleFlap
    \/ \E d \in Deltas, r \in Randoms : Tick(d, r)
    \/ AutoOnEvent
    \/ Render
    \/ AutoResetGame
    \/ \E i \in 1..2, ok \in BOOLEAN : WriteDone(i, ok)

SpecAuto == InitAuto /\ [][NextAuto]_vars

\* ---- src/App.tsx: the systems ----

\* the tick budget of the App.tsx specifications
MaxAppTicks == 250

\* the spawn test of SpawnPipes (line 165) as a render closed over gameState:
\* the tick's time against the previous tick's, prev = Unset for null
AppSpawnDue(mode, t, prev) ==
    mode = PLAYING /\ t - prev > SPAWN_INTERVAL * 1000

\* SpawnPipes (lines 164-174): createPipe(SCREEN_WIDTH + 100), World.add to
\* the world of the render's engine (held: that is the game engine's world),
\* push onto the pipes array of the entities it is called with
AppSpawnPipes(c, mode, t, prev, r, held) ==
    IF ~AppSpawnDue(mode, t, prev) THEN c
    ELSE LET x   == PX(SCREEN_WIDTH + 100)
             top == createPipeTop(x, r, c.nextId, c.nextId)
             bot == createPipeBottom(x, r, c.nextId + 1, c.nextId)
         IN  [c EXCEPT
                !.body = [i \in DOMAIN c.body \cup {top.id, bot.id} |->
                            IF i = top.id THEN top
                            ELSE IF i = bot.id THEN bot ELSE c.body[i]],
                !.world = IF held THEN c.world \cup {top.id, bot.id}
                          ELSE c.world,
                !.entities = [c.entities EXCEPT
                                !.pipes = @ \o <<top.id, bot.id>>],
                !.nextId = c.nextId + 2,
                !.spawned = TRUE]

\* the segments ScoreSystem marks in this call (line 180): of either role
AppPassed(e, bodies) ==
    {i \in SeqToSet(e.pipes) :
        /\ bodies[i].x + PX(60) < PX(SCREEN_WIDTH) \div 4
        /\ ~bodies[i].scored}

\* ScoreSystem (lines 177-187) as a render closed over gameState: one
\* setScore(prev => prev + 1) for each marked segment
AppScoreSystem(c, mode) ==
    IF mode # PLAYING THEN c
    ELSE LET hit == AppPassed(c.entities, c.body)
         IN  [c EXCEPT
                !.body = [i \in DOMAIN c.body |->
                            IF i \in hit THEN [c.body[i] EXCEPT !.scored = TRUE]
                            ELSE c.body[i]],
                !.score = c.score + Cardinality(hit),
                !.scoredPairs = c.scoredPairs \cup {c.body[i].pair : i \in hit}]

\* src/unnamed/part_004, Physics (lines 101-107): every segment of
\* entities.pipes moves PIPE_SPEED px to the left per call, and the array drops
\* the segments at or beyond -PIPE_WIDTH
LegacyMovePipes(c) ==
    LET inArr == SeqToSet(c.entities.pipes)
        moved == [i \in DOMAIN c.body |->
                    IF i \in inArr
                    THEN [c.body[i] EXCEPT !.x = @ - PX(PIPE_SPEED)]
                    ELSE c.body[i]]
    IN  [c EXCEPT !.body = moved,
                  !.entities = [c.entities EXCEPT
                                  !.pipes = FilterSeq(@, moved)]]

\* the frame timestamps a session starts at: within SPAWN_INTERVAL of the
\* timer's origin, and later
AppStartTimes == {StartTime, 3 * StartTime}

\* a session being played: the tap that started it is rendered, and the engine
\* has not ticked yet
InitAppPlaying ==
    /\ gameState = PLAYING
    /\ score = 0
    /\ highScore = 0
    /\ lastPipeSpawn = Unset
    /\ rendered = [gameState |-> PLAYING, score |-> 0, highScore |-> 0,
                   lastPipeSpawn |-> Unset]
    /\ entities = FreshEntities(createBird(0))
    /\ body = NoBodies
    /\ world = {0}
    /\ gravity = setupWorld
    /\ engineGen = 1
    /\ events = 0
    /\ now \in AppStartTimes
    /\ previousTime = Unset
    /\ stored = [present |-> FALSE, value |-> <<>>]
    /\ saves = <<>>
    /\ pending = <<>>
    /\ nextId = 1
    /\ scoredPairs = {}
    /\ taps = 1
    /\ ticks = 0
    /\ lag = 0
    /\ timers = <<>>
    /\ closure = 2
    /\ highAtStart = 0
    /\ last = NoOp

\* one frame: the pipes move as part_004's Physics moves them, then
\* SpawnPipes and ScoreSystem of App.tsx run, and React renders the score
AppSystemsTick(r) ==
    /\ ticks < MaxAppTicks
    /\ \E t \in {now + FRAME} :
       \E c \in {AppScoreSystem(
                    AppSpawnPipes(LegacyMovePipes(Context), rendered.gameState,
                                  t, previousTime, r, FALSE),
                    rendered.gameState)} :
          /\ entities' = c.entities
          /\ body' = c.body
          /\ world' = c.world
          /\ nextId' = c.nextId
          /\ score' = c.score
          /\ rendered' = [rendered EXCEPT !.score = c.score]
          /\ scoredPairs' = c.scoredPairs
          /\ now' = t
          /\ previousTime' = t
          /\ last' = [NoOp EXCEPT !.op = "AppSystems", !.mode = PLAYING,
                                  !.delta = t - now, !.spawned = c.spawned,
                                  !.s = score, !.t = t]
    /\ ticks' = ticks + 1
    /\ UNCHANGED <<timers, closure, gameState, highScore, lastPipeSpawn,
                   gravity, engineGen, events, stored, saves, pending, taps,
                   lag, highAtStart>>

NextAppSystems == \E r \in Randoms : AppSystemsTick(r)

SpecAppSystems == InitAppPlaying /\ [][NextAppSystems]_vars

\* ---- src/App.tsx: the App component ----

\* App() makes an engine, an avatar body and an entities object in its body
\* (lines 112-132), so each render has its own; closure is the number of the
\* last render and names its objects. The game engine runs on the objects of
\* the render it was mounted by.
EngineRender == 1

\* the state after the mount: render 1, and render 2, which follows the
\* setGameEngine(ref) of the ref callback (line 201) before any input
InitApp ==
    /\ gameState = READY
    /\ score = 0
    /\ highScore = 0
    /\ lastPipeSpawn = Unset
    /\ rendered = [gameState |-> READY, score |-> 0, highScore |-> 0,
                   lastPipeSpawn |-> Unset]
    /\ entities = FreshEntities(createBird(0))
    /\ body = NoBodies
    /\ world = {0}
    /\ gravity = setupWorld
    /\ engineGen = 1
    /\ events = 0
    /\ now \in AppStartTimes
    /\ previousTime = Unset
    /\ stored = [present |-> FALSE, value |-> <<>>]
    /\ saves = <<>>
    /\ pending = <<>>
    /\ nextId = 1
    /\ scoredPairs = {}
    /\ taps = 0
    /\ ticks = 0
    /\ lag = 0
    /\ timers = <<>>
    /\ closure = EngineRender + 1
    /\ highAtStart = 0
    /\ last = NoOp

\* React renders a pending update: new closures, new objects
AppRender ==
    /\ rendered # store
    /\ rendered' = store
    /\ closure' = closure + 1
    /\ previousTime' = PreviousTimeAfterRender(rendered, store)
    /\ last' = [NoOp EXCEPT !.op = "render", !.mode = gameState]
    /\ UNCHANGED <<timers, gameState, score, highScore, lastPipeSpawn,
                   entities, body, world, gravity, engineGen, events, now,
                   stored, saves, pending, nextId, scoredPairs, taps, ticks,
                   lag, highAtStart>>

\* the avatar the engine integrates after moveBird(bird) by a closure of
\* render k
AppMoveBird(e, k) ==
    IF k = EngineRender THEN [e EXCEPT !.bird = moveBird(@)] ELSE e

\* onPress (lines 189-198) with startGame (lines 157-161), and the render
\* that follows a state change
AppPress ==
    /\ taps < MaxTaps
    /\ gameState' = IF rendered.gameState = READY THEN PLAYING ELSE gameState
    /\ rendered' = [store EXCEPT !.gameState = gameState']
    /\ closure' = IF rendered' = rendered THEN closure ELSE closure + 1
    /\ previousTime' = PreviousTimeAfterRender(rendered, rendered')
    /\ entities' = IF rendered.gameState \in {READY, PLAYING}
                   THEN AppMoveBird(entities, closure) ELSE entities
    /\ taps' = taps + 1
    /\ last' = [NoOp EXCEPT !.op = "onPress", !.mode = rendered.gameState]
    /\ UNCHANGED <<timers, score, highScore, lastPipeSpawn, body, world,
                   gravity, engineGen, events, now, stored, saves, pending,
                   nextId, scoredPairs, ticks, lag, highAtStart>>

\* the frame timer fires while the engine is running: Physics of
\* game/physics.ts, then SpawnPipes and ScoreSystem of the last render, on the
\* entities the engine was mounted with
AppTick(r) ==
    /\ rendered.gameState = PLAYING
    /\ events = 0
    /\ ticks < MaxAppTicks
    /\ rendered # store => lag < MaxLag
    /\ \E t \in {now + FRAME} :
       \E delta \in {IF previousTime = Unset THEN 0 ELSE t - previousTime} :
       \E c \in {AppScoreSystem(
                    AppSpawnPipes(Physics(Context, delta), rendered.gameState,
                                  t, previousTime, r, closure = EngineRender),
                    rendered.gameState)} :
           /\ entities' = c.entities
           /\ body' = c.body
           /\ world' = c.world
           /\ nextId' = c.nextId
           /\ score' = c.score
           /\ scoredPairs' = c.scoredPairs
           /\ events' = events + c.dispatched
           /\ now' = t
           /\ previousTime' = t
           /\ ticks' = ticks + 1
           /\ lag' = IF rendered # store THEN lag + 1 ELSE lag
           /\ last' = [NoOp EXCEPT !.op = "tick", !.mode = rendered.gameState,
                                   !.delta = delta, !.spawned = c.spawned,
                                   !.dispatched = c.dispatched, !.t = t]
    /\ UNCHANGED <<timers, closure, gameState, highScore, lastPipeSpawn,
                   rendered, gravity, engineGen, stored, saves, pending, taps,
                   highAtStart>>

\* onEvent({type: 'game-over'}) (lines 135-146) of the last render; the timer
\* it starts holds that render's resetGame
AppOnEvent ==
    /\ events > 0
    /\ events' = events - 1
    /\ gameState' = GAME_OVER
    /\ highScore' = onEventHighScore(rendered.score, rendered.highScore, highScore)
    /\ saves' = onEventSaves(rendered.score, rendered.highScore, saves)
    /\ timers' = Append(timers, closure)
    /\ last' = [NoOp EXCEPT !.op = "onEvent", !.mode = gameState,
                            !.s = rendered.score, !.h = rendered.highScore]
    /\ UNCHANGED <<closure, score, lastPipeSpawn, rendered, entities, body,
                   world, gravity, engineGen, now, previousTime, stored,
                   pending, nextId, scoredPairs, taps, ticks, lag,
                   highAtStart>>

\* the entities the engine runs on after resetGame (lines 148-155) of render
\* k: setPosition(bird, y: 300), setVelocity, setAngle and entities.pipes = []
\* act on the objects of render k
AppResetEntities(e, k) ==
    IF k = EngineRender
    THEN [e EXCEPT !.bird = [createBird(@.id) EXCEPT !.y = 300 * 1000],
                   !.pipes = <<>>]
    ELSE e

\* the oldest timer fires, 1.5 s after it was set (React has rendered and the
\* zero-delay timeouts have run): resetGame, and the render that follows
AppResetGame ==
    /\ timers # <<>>
    /\ rendered = store
    /\ events = 0
    /\ timers' = Tail(timers)
    /\ entities' = AppResetEntities(entities, Head(timers))
    /\ gameState' = READY
    /\ score' = 0
    /\ rendered' = [store EXCEPT !.gameState = READY, !.score = 0]
    /\ closure' = IF rendered' = rendered THEN closure ELSE closure + 1
    /\ highAtStart' = highScore
    /\ last' = [NoOp EXCEPT !.op = "resetGame", !.mode = gameState,
                            !.s = score, !.h = highScore, !.t = Head(timers)]
    /\ UNCHANGED <<highScore, lastPipeSpawn, body, world, gravity, engineGen,
                   events, now, previousTime, stored, saves, pending, nextId,
                   scoredPairs, taps, ticks, lag>>

NextApp ==
    \/ AppPress
    \/ \E r \in Randoms : AppTick(r)
    \/ AppOnEvent
    \/ AppRender
    \/ AppResetGame

SpecApp == InitApp /\ [][NextApp]_vars

\* ---- the claims ----

Legal == {<<READY, PLAYING>>, <<PLAYING, GAME_OVER>>, <<GAME_OVER, READY>>}

\* C1: the mode starts at READY and every change of gameState is one of
\* READY->PLAYING, PLAYING->GAME_OVER, GAME_OVER->READY.
C1_LegalTransitions ==
    /\ gameState = READY
    /\ [][gameState' # gameState => <<gameState, gameState'>> \in Legal]_vars

C3_ResetComplete ==
    (last.op = "resetGame" /\ last.mode = GAME_OVER) =>
        /\ gameState = READY
        /\ entities.pipes = <<>>
        /\ entities.keyed = {}
        /\ entities.score = 0
        /\ score = 0
        /\ lastPipeSpawn = Unset
        /\ entities.bird.y = (SCREEN_HEIGHT * 1000) \div 2
        /\ entities.bird.vx = 0
        /\ entities.bird.vy = 0
        /\ entities.bird.angle = 0
        /\ highScore = Max(highAtStart, last.s)

\* C4: a tick whose delta is at least 16.667 ms leaves the avatar's position,
\* velocity and angle, and dispatches as many 'game-over' events, as a Physics
\* step with delta exactly 16.667 from the same entities.
C4_DeltaClamp ==
    [][(last'.op = "tick" /\ last'.delta >= FRAME) =>
         LET step == EngineUpdate(entities.bird, gravity, FRAME)
         IN  /\ entities'.bird.y = step.y
             /\ entities'.bird.vx = step.vx
             /\ entities'.bird.vy = step.vy
             /\ entities'.bird.angle = Rotation(step.vy)
             /\ last'.dispatched =
                  PhysicsDispatch(entities'.bird, entities.pipes, body)]_vars

\* C4 witness: a tick with a delta of 90 frames has run its Physics step, with
\* gravity having acted on the avatar.
C4_Witness ==
    /\ last.op = "tick"
    /\ last.delta = 90 * FRAME
    /\ entities.bird.vy > FLAP_VY * 1000

\* C5: immediately after every Physics step the avatar's vertical velocity is
\* within [-12, 15], whatever the velocity before the step and the gravity.
C5_VelocityClamp ==
    last.op = "Physics" =>
        /\ entities.bird.vy >= VY_MIN * 1000
        /\ entities.bird.vy <= VY_MAX * 1000

\* the same at the gravity setupWorld gives the world (0.6)
VelocityClampAtWorldGravity == gravity = setupWorld => C5_VelocityClamp

\* C6: a tick at clock time T spawns a pair (and records lastPipeSpawn = T) if
\* and only if the session has no prior spawn or T - lastPipeSpawn >=
\* SPAWN_INTERVAL, whenever the render of the recorded time happens.
C6_SpawnRule ==
    [][last'.op = "tick" =>
         /\ last'.spawned <=> SpawnDue(lastPipeSpawn, now')
         /\ last'.spawned => lastPipeSpawn' = now']_vars

\* C7: the engine's running score equals the number of pairs marked scored in
\* the session, so each pair contributes at most 1 however often ScoreSystem
\* runs after its lower segment was marked.
C7_ScoreOncePerPair == entities.score = Cardinality(scoredPairs)

\* C7 witness: a one-frame tick has run ScoreSystem on a lower segment that was
\* already marked scored by the tick before (it was past the avatar then).
C7_Witness ==
    /\ last.op = "tick"
    /\ last.delta = FRAME
    /\ entities.score >= 1
    /\ \E i \in SeqToSet(entities.pipes) :
          /\ body[i].scored
          /\ body[i].x + PIPE_SPEED * FRAME + PX(PIPE_WIDTH) \div 2 < BIRD_X

\* C8: no segment with x < -PIPE_WIDTH is in entities.pipes, and a segment is
\* in entities.pipes only together with the other segment of its pair.
C8_Retirement ==
    \A i \in SeqToSet(entities.pipes) :
        /\ ~(body[i].x < -PX(PIPE_WIDTH))
        /\ \E j \in SeqToSet(entities.pipes) :
              /\ body[j].pair = body[i].pair
              /\ body[j].isTop # body[i].isTop

\* C8 witness: in the first session a SpawnPipes call has just run, and of the
\* segments created so far some have left entities.pipes while others remain.
C8_Witness ==
    /\ last.op = "tick"
    /\ engineGen = 1
    /\ entities.pipes # <<>>
    /\ Len(entities.pipes) < nextId - 1

\* C9: a tap handled while the mode is READY sets the mode to PLAYING, the
\* avatar's velocity to (0, -8) and lastPipeSpawn to 0 (also as the systems see
\* it), and the first tick of the session spawns a pair.
C9_TapInReady ==
    [][/\ (last'.op = "handleFlap" /\ gameState = READY) =>
            /\ gameState' = PLAYING
            /\ entities'.bird.vx = 0
            /\ entities'.bird.vy = FLAP_VY * 1000
            /\ lastPipeSpawn' = Unset
            /\ rendered'.lastPipeSpawn = Unset
       /\ (last'.op = "tick" /\ previousTime = Unset) => last'.spawned]_vars

\* C9 witness: after a reset, a tap has started the second session and its
\* first tick has spawned that session's first pair.
C9_Witness ==
    /\ engineGen = 2
    /\ last.op = "tick"
    /\ last.delta = 0
    /\ last.spawned
    /\ Len(entities.pipes) = 2

\* C10: a tap handled while the mode is PLAYING sets the avatar's vertical
\* velocity to exactly -8 and leaves the mode, both scores, the high score, the
\* obstacle set and lastPipeSpawn unchanged; no tap outside READY changes
\* lastPipeSpawn.
C10_TapInPlaying ==
    [][/\ (last'.op = "handleFlap" /\ gameState = PLAYING) =>
            /\ entities'.bird.vy = FLAP_VY * 1000
            /\ UNCHANGED <<gameState, score, highScore, lastPipeSpawn, body>>
            /\ entities'.pipes = entities.pipes
            /\ entities'.keyed = entities.keyed
            /\ entities'.score = entities.score
       /\ (last'.op = "handleFlap" /\ gameState # READY) =>
            lastPipeSpawn' = lastPipeSpawn]_vars

\* C10 witness: a tap was handled in PLAYING after a spawn, with the avatar
\* moving at another velocity than the flap's before it: the velocity is -8 and
\* the spawn time is still recorded.
C10_Witness ==
    /\ last.op = "handleFlap"
    /\ last.mode = PLAYING
    /\ gameState = PLAYING
    /\ ticks >= 2
    /\ entities.bird.vy = FLAP_VY * 1000
    /\ lastPipeSpawn # Unset

\* C11: a tap handled while the mode is GAME_OVER changes nothing: the mode,
\* the avatar, both scores, the high score, the obstacle set and lastPipeSpawn
\* are as before.
C11_TapInGameOver ==
    [][(last'.op = "handleFlap" /\ gameState = GAME_OVER) =>
          UNCHANGED <<gameState, score, highScore, lastPipeSpawn, entities,
                      body, world>>]_vars

\* the same for a tap whose handler already reads GAME_OVER (the component has
\* rendered since the game-over event)
TapIgnoredWhenRenderedGameOver ==
    [][(last'.op = "handleFlap" /\ rendered.gameState = GAME_OVER) =>
          UNCHANGED <<gameState, score, highScore, lastPipeSpawn, entities,
                      body, world>>]_vars

\* a tap was handled by a render that shows GAME_OVER, with pipes on screen
TapWhenRenderedGameOver ==
    /\ last.op = "handleFlap"
    /\ last.mode = GAME_OVER
    /\ gameState = GAME_OVER
    /\ entities.pipes # <<>>

\* C12: a 'game-over' event handled while the mode is not PLAYING changes
\* neither the mode nor the high score and starts no save.
C12_GameOverIgnored ==
    [][(last'.op = "onEvent" /\ gameState # PLAYING) =>
          UNCHANGED <<gameState, highScore, saves>>]_vars

\* C13: every new value of highScore is >= the value it replaces (load,
\* game-over events, sessions), and a restart leaves it as it is.
C13_HighScoreMonotone ==
    [][/\ highScore' >= highScore
       /\ last'.op = "resetGame" => highScore' = highScore]_vars

\* C13 witness: a high score was loaded, a session beat it, and the restart
\* kept the new value.
C13_Witness ==
    /\ last.op = "resetGame"
    /\ stored.present
    /\ highScore > parseInt(stored.value)
    /\ saves # <<>>

\* the bodies the running engine and its world refer to
LiveBodies(e, w) == w \cup SeqToSet(e.pipes) \cup {k.id : k \in e.keyed}

\* C14: a restart makes a new engine and a new avatar body in one step, the
\* new world holds exactly that body, and at all times no body older than the
\* current avatar is in the current world or in the engine's entities.
C14_WholesaleReplacement ==
    [][/\ last'.op = "resetGame" =>
            /\ engineGen' = engineGen + 1
            /\ entities'.bird.id \notin LiveBodies(entities, world) \cup {entities.bird.id}
            /\ world' = {entities'.bird.id}
            /\ entities'.pipes = <<>>
            /\ entities'.keyed = {}
       /\ last'.op # "resetGame" =>
            /\ engineGen' = engineGen
            /\ entities'.bird.id = entities.bird.id
       /\ entities'.exists =>
            /\ entities'.bird.id \in world'
            /\ \A i \in LiveBodies(entities', world') : i >= entities'.bird.id]_vars

\* C14 witness: the ended session had pipes in its world, and the session after
\* the restart has spawned its own.
C14_Witness ==
    /\ engineGen = 2
    /\ last.op = "tick"
    /\ entities.pipes # <<>>
    /\ entities.bird.id > 2

\* C15: a Physics step with a negative time.delta leaves the avatar where a
\* step with delta 0 from the same state leaves it.
C15_NegativeDeltaAsZero ==
    [][(last'.op = "Physics" /\ last'.delta < 0) =>
          LET zero == EngineUpdate(entities.bird, gravity, 0)
          IN  /\ entities'.bird.y = zero.y
              /\ entities'.bird.vy = zero.vy]_vars

\* C16: a Physics step dispatches 'game-over' if and only if, after the
\* integration, the avatar overlaps a segment of entities.pipes or its y is
\* > SCREEN_HEIGHT or < 0 (not at y = 0 or y = SCREEN_HEIGHT exactly), and it
\* does not change the mode.
C16_DispatchIff ==
    [][last'.op = "Physics" =>
          /\ last'.dispatched > 0 <=>
                \/ \E i \in SeqToSet(entities'.pipes) :
                      Collides(entities'.bird, body'[i])
                \/ entities'.bird.y > SCREEN_HEIGHT * 1000
                \/ entities'.bird.y < 0
          /\ (/\ entities'.bird.y \in {0, SCREEN_HEIGHT * 1000}
              /\ ~\E i \in SeqToSet(entities'.pipes) :
                      Collides(entities'.bird, body'[i]))
                => last'.dispatched = 0
          /\ UNCHANGED <<gameState, rendered>>]_vars

\* C16 witness: a step has left the avatar exactly on the lower edge of the
\* screen, clear of the pipes, and dispatched nothing.
C16_Witness ==
    /\ last.op = "Physics"
    /\ entities.bird.y = SCREEN_HEIGHT * 1000
    /\ \A i \in SeqToSet(entities.pipes) : ~Collides(entities.bird, body[i])
    /\ last.dispatched = 0
    /\ events = 0

\* a step has dispatched for an overlap alone, and a step for the lower edge
\* alone
DispatchedForOverlapOnly ==
    /\ last.op = "Physics"
    /\ last.dispatched = 1
    /\ ~OutOfBounds(entities.bird)
DispatchedForBoundsOnly ==
    /\ last.op = "Physics"
    /\ last.dispatched = 1
    /\ \A i \in SeqToSet(entities.pipes) : ~Collides(entities.bird, body[i])

\* C17: a SpawnPipes call adds a pair only while the mode is PLAYING, never in
\* READY and never after the mode has become GAME_OVER.
C17_SpawnOnlyWhilePlaying ==
    [][(last'.op = "tick" /\ last'.spawned) => gameState = PLAYING]_vars

\* the same for the mode SpawnPipes itself reads (the last render's)
SpawnOnlyWhileRenderedPlaying ==
    [][(last'.op = "tick" /\ last'.spawned) =>
          rendered.gameState = PLAYING]_vars

\* C18: for every draw r, the top segment spans [0, topHeight], the bottom
\* segment ends at SCREEN_HEIGHT, both heights are >= MIN_PIPE_HEIGHT, the gap
\* between them is exactly PIPE_GAP, and both segments have the same x.
C18_GapGeneration ==
    last.op = "createPipe" =>
        \E top, bottom \in SeqToSet(entities.pipes) :
            /\ entities.pipes = <<top, bottom>>
            /\ body[top].isTop /\ ~body[bottom].isTop
            /\ body[top].lo = 0
            /\ body[top].hi - body[top].lo >= MIN_PIPE_HEIGHT * 1000
            /\ body[bottom].hi = SCREEN_HEIGHT * 1000
            /\ body[bottom].hi - body[bottom].lo >= MIN_PIPE_HEIGHT * 1000
            /\ body[bottom].lo - body[top].hi = PIPE_GAP * 1000
            /\ body[top].x = body[bottom].x

\* C18 witness: the largest draw has made a pair whose bottom segment is
\* within a pixel of the minimum height.
C18_Witness ==
    /\ last.op = "createPipe"
    /\ last.t = 999
    /\ Len(entities.pipes) = 2
    /\ body[2].hi - body[2].lo < (MIN_PIPE_HEIGHT + 1) * 1000

\* the segments in entities.pipes both before and after the step
Staying == SeqToSet(entities.pipes) \cap SeqToSet(entities'.pipes)

\* C19 (as stated): for every tick with delta >= 0, every segment that is in
\* the active set before and after the tick has a strictly smaller x after it.
C19_StrictlyDecreasing ==
    [][last'.op = "SpawnPipes" =>
          \A i \in Staying : body'[i].x < body[i].x]_vars

\* C19 (amended): a tick with delta > 0 strictly decreases the x of every
\* segment that stays in the active set, a tick with delta = 0 leaves it as it
\* is, and no tick increases the x of any body.
C19_DecreasingOverTime ==
    [][last'.op = "SpawnPipes" =>
          /\ \A i \in Staying :
                /\ last'.delta > 0 => body'[i].x < body[i].x
                /\ last'.delta = 0 => body'[i].x = body[i].x
          /\ \A i \in DOMAIN body \cap DOMAIN body' :
                body'[i].x <= body[i].x]_vars

\* C19 witness: a tick with delta 0 has run with segments in the active set,
\* after ticks that moved them.
C19_Witness ==
    /\ last.op = "SpawnPipes"
    /\ last.delta = 0
    /\ ~last.spawned
    /\ ticks >= 3
    /\ \E i \in SeqToSet(entities.pipes) :
          body[i].x < PX(SCREEN_WIDTH + PIPE_WIDTH)

\* in the app no operation at all increases the x of a body
ObstacleXNeverIncreases ==
    [][\A i \in DOMAIN body \cap DOMAIN body' : body'[i].x <= body[i].x]_vars

\* C20: after every SpawnPipes call the pipe bodies registered in the physics
\* world, and the bodies of the keyed render entities, are exactly the bodies
\* of entities.pipes.
C20_WorldMatchesActiveSet ==
    last.op = "SpawnPipes" =>
        /\ world \ {entities.bird.id} = SeqToSet(entities.pipes)
        /\ {k.id : k \in entities.keyed} = SeqToSet(entities.pipes)

\* segments that left the active set with x < -PIPE_WIDTH left the world and
\* the keyed entities in the same call
RetiredBeyondEdgeLeaveWorld ==
    [][last'.op = "SpawnPipes" =>
          \A i \in SeqToSet(entities.pipes) \ SeqToSet(entities'.pipes) :
              body[i].x - MoveAmount(last'.delta) < -PX(PIPE_WIDTH) =>
                  /\ i \notin world'
                  /\ i \notin {k.id : k \in entities'.keyed}]_vars

\* C21: a frame tick that arrives while the mode is not PLAYING (READY, or
\* once a game-over event has set GAME_OVER) changes neither the avatar, nor
\* any obstacle, nor the obstacle set, nor the running score; a tick while
\* PLAYING runs Physics, SpawnPipes and ScoreSystem once each, in this order.
C21_StagesOnlyWhilePlaying ==
    [][last'.op = "tick" =>
          /\ gameState # PLAYING =>
                UNCHANGED <<entities, body, world, score>>
          /\ gameState = PLAYING =>
                \E r \in Randoms :
                \E c \in {ScoreSystem(
                              SpawnPipes(Physics(Context, last'.delta),
                                         rendered.gameState,
                                         rendered.lastPipeSpawn, now',
                                         last'.delta, r),
                              rendered.gameState)} :
                    /\ entities' = c.entities
                    /\ body' = c.body
                    /\ score' = c.score]_vars

\* the same for the mode the engine's running prop was computed from: no tick
\* runs unless the last render saw PLAYING
TicksOnlyWhileRenderedPlaying ==
    [][last'.op = "tick" => rendered.gameState = PLAYING]_vars

\* what the app offers whatever the storage does: the restart on the game-over
\* screen and a tap
RestartOffered ==
    (entities.exists /\ rendered.gameState = GAME_OVER) => ENABLED handleRestart
TapOffered == (entities.exists /\ taps < MaxTaps) => ENABLED Tap

\* C22: a save that succeeds or fails changes neither the mode, nor the
\* scores, nor the high score in memory, nor the obstacle set; and while a save
\* is pending or has failed, taps and the restart stay available (and ticks
\* run: TickWhileSavePending).
C22_SaveFireAndForget ==
    /\ []((pending # <<>> \/ (last.op = "saveHighScore" /\ ~last.ok)) =>
             (RestartOffered /\ TapOffered))
    /\ [][last'.op = "saveHighScore" =>
             UNCHANGED <<gameState, score, highScore, lastPipeSpawn, rendered,
                         entities, body, world, events>>]_vars

\* C22 witness: a save has failed while the game-over screen is shown, with
\* the high score of the session in memory.
C22_Witness ==
    /\ last.op = "saveHighScore"
    /\ ~last.ok
    /\ rendered.gameState = GAME_OVER
    /\ highScore = last.s
    /\ highScore > 0

\* a tick of the next session has run while a save was still pending
TickWhileSavePending ==
    last.op = "tick" /\ pending # <<>> /\ engineGen = 2 /\ gameState = PLAYING

\* a restart was taken while a save was still pending
RestartWhileSavePending == last.op = "resetGame" /\ pending # <<>>

\* C23: the load of the high score tolerates absence and failure. When the
\* stored item is absent or the read throws, highScore is 0; when it is read,
\* highScore is the stored number; and in every case the initialisation ends
\* with the entities created and the mode READY, a tap is accepted, and that
\* first tap starts a session.
C23_LoadTolerant ==
    /\ [](last.op = "initializeGame" =>
             /\ entities.exists
             /\ gameState = READY
             /\ rendered.gameState = READY
             /\ (~stored.present \/ ~last.ok) => highScore = 0
             /\ (stored.present /\ last.ok) => highScore = parseInt(stored.value)
             /\ ENABLED Tap)
    /\ [][(last.op = "initializeGame" /\ last'.op = "handleFlap") =>
             (gameState' = PLAYING /\ entities'.gameStateCurrent = PLAYING)]_vars

\* a session was started after a read that threw although an item was stored
C23_Witness ==
    /\ last.op = "handleFlap"
    /\ last.mode = READY
    /\ gameState = PLAYING
    /\ stored.present
    /\ parseInt(stored.value) > 0
    /\ highScore = 0
    /\ saves = <<>>
    /\ ticks = 0
    /\ engineGen = 1

\* the x of the segments of the tracking array in context c
ArrayX(c) == [i \in SeqToSet(c.entities.pipes) |-> c.body[i].x]

\* C24: obstacle motion is independent of the frame rate. A SpawnPipes call
\* with delta d moves every segment that stays in the active set left by
\* PIPE_SPEED * d / 16.667 px, and, with no spawn, the move block applied for
\* delta a and then for delta b leaves the same active set at the same x as
\* the move block applied once for a + b.
C24_FrameRateIndependent ==
    /\ [](\A a, b \in PipeDeltas :
             ArrayX(MoveBlock(MoveBlock(Context, a), b))
                 = ArrayX(MoveBlock(Context, a + b)))
    /\ [][last'.op = "SpawnPipes" =>
             \A i \in Staying :
                 body[i].x - body'[i].x = PIPE_SPEED * last'.delta]_vars

\* a segment spawned earlier has been moved by ticks of one frame and of sixty
\* frames, in either order, and is still active
C24_Witness ==
    /\ last.op = "SpawnPipes"
    /\ ~last.spawned
    /\ last.delta \in {FRAME, 60 * FRAME}
    /\ \E i \in SeqToSet(entities.pipes) :
          body[i].x = PX(SCREEN_WIDTH + PIPE_WIDTH) - PIPE_SPEED * 61 * FRAME

\* velocity differences (1/1000 px per step) used to compare angles
VelocitySteps == {1, 10, 1000, 20000, 40000}

\* C25: the angle the Physics step sets is the clamped image of the avatar's
\* velocity after the step, lies in [-pi/4, pi/2], and does not decrease when
\* the velocity increases, nor increase when it decreases, whatever the
\* velocity is.
C25_RotationMonotoneBounded ==
    last.op = "Physics" =>
        LET vy == entities.bird.vy
        IN  /\ entities.bird.angle = Rotation(vy)
            /\ entities.bird.angle \in ANGLE_MIN..ANGLE_MAX
            /\ \A d \in VelocitySteps :
                  /\ Rotation(vy - d) <= Rotation(vy)
                  /\ Rotation(vy) <= Rotation(vy + d)
                  /\ Rotation(vy - d) \in ANGLE_MIN..ANGLE_MAX
                  /\ Rotation(vy + d) \in ANGLE_MIN..ANGLE_MAX
            /\ vy \in (ANGLE_MIN * 10)..(ANGLE_MAX * 10 + 9) =>
                  entities.bird.angle = vy \div 10

\* a step has left the avatar rising faster than the angle can show
C25_Witness ==
    /\ last.op = "Physics"
    /\ entities.bird.vy < ANGLE_MIN * 10
    /\ entities.bird.angle = ANGLE_MIN

\* a step has left the avatar with an angle strictly inside the range
RotationUnclampedCase ==
    /\ last.op = "Physics"
    /\ entities.bird.vy > 0
    /\ entities.bird.angle = entities.bird.vy \div 10
    /\ entities.bird.angle < ANGLE_MAX

\* C26: when onEvent handles a 'game-over' event right after the tick that
\* dispatched it, the score it compares with the high score is the running
\* score of the entities at the end of that tick, and a high score it commits
\* is that score.
C26_CommittedScoreIsEngineScore ==
    [][(last.op = "tick" /\ last.dispatched > 0 /\ last'.op = "onEvent") =>
         /\ last'.s = entities.score
         /\ highScore' # highScore => highScore' = entities.score]_vars

\* onEvent never reads a score above the one the entities hold
OnEventScoreNeverAhead ==
    [][last'.op = "onEvent" => last'.s <= entities.score]_vars

\* once the score has been rendered, onEvent reads the entities' score
OnEventScoreAfterRender ==
    [][(last'.op = "onEvent" /\ rendered.score = score) =>
         last'.s = entities.score]_vars

\* C27: the end of a session is committed at most once: onEvent starts at
\* most one save per session, so the saves started so far are at most as many
\* as the sessions so far (one per engine created), and an onEvent call that
\* starts a save does not follow another one of the same session that did.
C27_CommitOncePerSession ==
    /\ [](Len(saves) <= engineGen)
    /\ [][(last.op = "onEvent" /\ last'.op = "onEvent" /\ saves # <<>>) =>
             saves' = saves]_vars

\* a save is started only by an onEvent call that read a score above the
\* high score it read
SaveOnlyForNewHighScore ==
    [][saves' # saves =>
         (last'.op = "onEvent" /\ last'.s > last'.h
          /\ saves' = Append(saves, last'.s))]_vars

\* C28: the persisted high score agrees with memory. When a write completes
\* the stored number does not decrease, and once a write has completed with no
\* write left pending (every write having succeeded) the stored number is the
\* high score in memory.
C28_StoredAgreesWithMemory ==
    /\ [][(last'.op = "saveHighScore" /\ stored.present) =>
             (stored'.present
              /\ parseInt(stored'.value) >= parseInt(stored.value))]_vars
    /\ []((last.op = "saveHighScore" /\ pending = <<>>) =>
             (stored.present /\ parseInt(stored.value) = highScore))

\* the two parts of C28, each on its own
StoredNeverDecreases ==
    [][(last'.op = "saveHighScore" /\ stored.present) =>
         (stored'.present
          /\ parseInt(stored'.value) >= parseInt(stored.value))]_vars

StoredIsHighScoreWhenSettled ==
    (last.op = "saveHighScore" /\ pending = <<>>) =>
        (stored.present /\ parseInt(stored.value) = highScore)

\* with the item absent or below every value written, and the writes settling
\* in the order they were started, the stored number only grows
StoredGrowsWhenWrittenInOrder ==
    [][(last'.op = "saveHighScore" /\ stored.present
        /\ last'.s = parseInt(pending[1])
        /\ parseInt(stored.value) <= highAtStart) =>
         parseInt(stored'.value) >= parseInt(stored.value)]_vars

\* the bodies held by the keyed render entities
KeyedBodies(e) == {k.id : k \in e.keyed}

\* C29: the rendered set is the simulated set. After every SpawnPipes call the
\* bodies of the keyed render entities are exactly the bodies of the tracking
\* array; a spawned pair has two keys of its own; and the segments a call
\* drops from the array are the ones it drops from the keyed entities.
C29_RenderedIsSimulated ==
    /\ [](last.op = "SpawnPipes" =>
             /\ KeyedBodies(entities) = SeqToSet(entities.pipes)
             /\ Cardinality(entities.keyed) = Len(entities.pipes))
    /\ [][last'.op = "SpawnPipes" =>
             /\ last'.spawned =>
                   Cardinality({k \in entities'.keyed \ entities.keyed :
                                   k.pid = PipeId(now')}) = 2
             /\ \A i \in SeqToSet(entities.pipes) :
                   (i \in SeqToSet(entities'.pipes))
                       <=> (i \in KeyedBodies(entities'))]_vars

\* every spawned pair gets two keys of its own, and the keyed bodies are
\* bodies the array holds or held
SpawnedPairIsKeyed ==
    [][last'.op = "SpawnPipes" =>
          /\ last'.spawned =>
                Cardinality({k \in entities'.keyed \ entities.keyed :
                                k.pid = PipeId(now')}) = 2
          /\ SeqToSet(entities'.pipes) \subseteq KeyedBodies(entities')]_vars

\* C30: no tunnelling after a pause. Whatever the delta of the tick, no
\* segment moves left by more than PIPE_WIDTH + BIRD_SIZE, so that a segment
\* entirely ahead of the avatar before the tick is not entirely behind it
\* after the tick.
C30_NoTunnelling ==
    [][last'.op = "SpawnPipes" =>
          \A i \in Staying :
              /\ body[i].x - body'[i].x <= PX(PIPE_WIDTH + BIRD_SIZE)
              /\ ~(/\ body[i].x - PX(PIPE_WIDTH) \div 2
                         > BIRD_X + PX(BIRD_SIZE) \div 2
                    /\ body'[i].x + PX(PIPE_WIDTH) \div 2
                         < BIRD_X - PX(BIRD_SIZE) \div 2)]_vars

\* a tick of at most one frame moves a segment by at most PIPE_SPEED px
FrameTickMovesBySpeed ==
    [][(last'.op = "SpawnPipes" /\ last'.delta <= FRAME) =>
          \A i \in Staying : body[i].x - body'[i].x <= PX(PIPE_SPEED)]_vars

\* C38: the mode mirrored in the entities (entities.gameState.current) equals
\* the app's mode after the initialisation and after each handled tap,
\* game-over event and restart.
C38_MirroredMode ==
    (entities.exists
     /\ last.op \in {"initializeGame", "handleFlap", "onEvent", "resetGame"})
        => entities.gameStateCurrent = gameState

\* the mirror is never GAME_OVER
MirrorNeverGameOver == entities.gameStateCurrent # GAME_OVER

\* the mirror follows the initialisation, the start and the restart
MirrorAfterStartAndReset ==
    (entities.exists /\ last.op \in {"initializeGame", "resetGame"})
        => (entities.gameStateCurrent = READY /\ gameState = READY)

\* C37: for every draw, the legacy createPipe leaves exactly PIPE_GAP between
\* the lower edge of the top segment and the upper edge of the bottom segment,
\* and both segments are at least MIN_PIPE_HEIGHT high.
C37_LegacyGap ==
    last.op = "legacyCreatePipe" =>
        \E top, bottom \in SeqToSet(entities.pipes) :
            /\ entities.pipes = <<top, bottom>>
            /\ body[bottom].lo - body[top].hi = PIPE_GAP * 1000
            /\ body[top].hi - body[top].lo >= MIN_PIPE_HEIGHT * 1000
            /\ body[bottom].hi - body[bottom].lo >= MIN_PIPE_HEIGHT * 1000

\* both legacy segments are at least MIN_PIPE_HEIGHT high and the bottom one
\* ends at the bottom of the screen
LegacyHeights ==
    last.op = "legacyCreatePipe" =>
        /\ body[1].hi - body[1].lo >= MIN_PIPE_HEIGHT * 1000
        /\ body[2].hi - body[2].lo >= MIN_PIPE_HEIGHT * 1000
        /\ body[2].hi = SCREEN_HEIGHT * 1000

\* the legacy gap is PIPE_GAP less half the gap position
LegacyGapShrinks ==
    last.op = "legacyCreatePipe" =>
        body[2].lo - body[1].hi
            = PIPE_GAP * 1000 - LegacyGapPosition(last.t) \div 2

\* C31: every session ends. From the tap that starts a session, with the frame
\* clock ticking and no further tap, a tick eventually dispatches 'game-over'
\* and the mode eventually becomes GAME_OVER.
C31_SessionEnds ==
    /\ <>(last.op = "tick" /\ last.dispatched > 0)
    /\ (gameState = PLAYING) ~> (gameState = GAME_OVER)

\* the avatar has fallen below the screen without meeting a pipe, and the
\* event of that tick has ended the session
C31_Witness ==
    /\ gameState = GAME_OVER
    /\ last.op = "onEvent"
    /\ entities.bird.y > SCREEN_HEIGHT * 1000
    /\ entities.bird.vy > 0
    /\ ticks < MaxFrames

\* a session left to itself lasts fewer than 150 frames
SessionWithinFrames == ticks < 150

\* the frame timer is due exactly when a frame tick can be taken
FrameDueIsEnabled ==
    [][(ticks' # ticks) => (FrameDue /\ ticks' = ticks + 1)]_vars

\* C32: in the variant that restarts by itself a timer-driven resetGame runs
\* only while the mode is GAME_OVER (so never on a session the player has
\* started again, and once per ended session), however many 'game-over'
\* events a session dispatches
C32_ResetOnlyAfterGameOver ==
    [][last'.op = "resetGame" => gameState = GAME_OVER]_vars

\* a reset timer fires on a session that is being played
ResetWhilePlaying ==
    last.op = "resetGame" /\ last.mode = PLAYING /\ gameState = READY

\* C33: after resetGame of the variant that restarts by itself the engine's
\* entities hold no pipe segment, in the array or under a pipe_ key
C33_ResetClearsObstacles ==
    last.op = "resetGame" => (entities.pipes = <<>> /\ entities.keyed = {})

\* a segment of the ended session is in the array the engine's systems use
\* while the next session is played
OldSegmentInNextSession ==
    /\ gameState = PLAYING
    /\ last.op = "tick"
    /\ \E i \in DOMAIN entities.pipes :
          /\ entities.pipes[i] \notin world
          /\ \A k \in entities.keyed : k.id # entities.pipes[i]

\* resetGame leaves no pipe_ key on the object its closure holds, and takes
\* the bodies of that object's pipes out of the Matter world
ResetRemovesKeysAndBodies ==
    [][(last'.op = "resetGame" /\ Head(timers) = "engine") =>
          /\ entities'.keyed = {}
          /\ \A i \in DOMAIN entities.pipes : entities.pipes[i] \notin world']_vars

\* C34: the spawner of src/App.tsx creates pairs on a fixed interval: with
\* frames one FRAME apart, a pair is created at the latest two frames after
\* SPAWN_INTERVAL has passed since the previous one (or since the session
\* started), so the pairs created so far outnumber the full periods elapsed
C34_FixedInterval ==
    last.op = "AppSystems" =>
        ((nextId - 1) \div 2 + 1) * (SPAWN_INTERVAL * 1000 + 2 * FRAME)
            > ticks * FRAME

\* a pair is created only by the first tick of a session, when time.previous
\* is null and the timestamp itself exceeds SPAWN_INTERVAL
AppSpawnsOnFirstTickOnly ==
    [][(last'.op = "AppSystems" /\ last'.spawned) =>
          (previousTime = Unset /\ now' > SPAWN_INTERVAL * 1000)]_vars

\* C35: the scorer of src/App.tsx adds exactly 1 to the score for each pair
\* that passes the avatar
C35_OnePointPerPair ==
    [][last'.op = "AppSystems" =>
          score' - score = Cardinality(scoredPairs' \ scoredPairs)]_vars

\* each segment is counted once: the score is the number of marked segments
AppScoreCountsSegments ==
    score = Cardinality({i \in DOMAIN body : body[i].scored})

\* a pair has passed the avatar and the score is 2
PairPassedScoresTwo ==
    /\ last.op = "AppSystems"
    /\ Cardinality(scoredPairs) = 1
    /\ score = 2

\* C36: in every reachable state of src/App.tsx the objects of the last
\* render (the body a tap moves) and of every pending reset timer (the body it
\* repositions, the pipes array it clears) are the ones the game engine runs on
C36_InputTargetsEngineObjects ==
    /\ closure = EngineRender
    /\ \A i \in DOMAIN timers : timers[i] = EngineRender

\* a tap in PLAYING and a reset leave the engine's avatar as it was
AppInputMissesEngine ==
    [][last'.op \in {"onPress", "resetGame"} => entities' = entities]_vars

\* a session is being played again while the engine's avatar is still where
\* the last session ended, below the screen
SecondSessionStartsOutOfBounds ==
    /\ gameState = PLAYING
    /\ last.op = "onPress"
    /\ saves = <<>>
    /\ highAtStart = highScore
    /\ OutOfBounds(entities.bird)

============================================================================
